---- MODULE Spec2Model ----
(***************************************************************************)
(* Model of server.js: the in-memory session store (create-session with   *)
(* its expiry sweep) and the execute-privacy-transaction pipeline          *)
(* (confirmation polling, balance polling, pool deposit and withdrawal,    *)
(* device creation, session cleanup and the HTTP response).                *)
(*                                                                         *)
(* Every await of a handler is a suspension point, so a handler is cut     *)
(* into one action per await; the code between two awaits is atomic.       *)
(* Date.now() is the variable now; the clock may advance by a millisecond  *)
(* between two reads inside one handler.                                   *)
(***************************************************************************)
EXTENDS Integers, Sequences, FiniteSets, TLC

\* ---------------------------------------------------------------- bounds
MaxRuns == 2
MaxCreates == 2
MaxRand == 1
MaxDrift == 1

\* ------------------------------------------------------ program constants
PAYMENT_AMOUNT == 1000000
SessionTTL == 15 * 60 * 1000
ConfirmAttempts == 30
BalanceAttempts == 10

RunIds == 1..MaxRuns
RandSuffixes == 0..(MaxRand - 1)
\* undefined, at each type it occurs at.
NoValue == "undefined"
NoAmount == 0 - 1
NoToken == <<>>
NoSession == [burner |-> 0, createdAt |-> 0, expiresAt |-> 0]

VARIABLES now, sessions, created, issued, runs, reply

vars == <<now, sessions, created, issued, runs, reply>>

\* ---------------------------------------------------------- session store
\* `session_${Date.now()}_${Math.random().toString(36).substr(2, 9)}`:
\* the id is determined by the clock reading and the random suffix.
SessionId(t, suffix) == [time |-> t, suffix |-> suffix]

\* An id no create-session call produces (a client-supplied unknown id).
UnknownId == [time |-> -1, suffix |-> 0]

\* The sessionId of a request body that has none.
MissingId == [time |-> -2, suffix |-> 0]

\* The record create-session stores.  burner stands for the generated
\* keypair with its public key, ATA and base58 private key (all derived
\* from the keypair).
SessionRecord(burner, tCreated, tExpires) ==
    [burner |-> burner, createdAt |-> tCreated, expiresAt |-> tExpires + SessionTTL]

\* The Map is a sequence of entries [id, rec] in insertion order.
Keys(store) == {store[i].id : i \in 1..Len(store)}

\* Map.prototype.set: a present key keeps its position and gets the new value.
SessionsSet(store, id, rec) ==
    IF id \in Keys(store)
    THEN LET i == CHOOSE k \in 1..Len(store) : store[k].id = id
         IN  [store EXCEPT ![i] = [id |-> id, rec |-> rec]]
    ELSE Append(store, [id |-> id, rec |-> rec])

\* Map.prototype.get: undefined for an absent key.
SessionsGet(store, id) ==
    IF id \in Keys(store)
    THEN (CHOOSE e \in {store[i] : i \in 1..Len(store)} : e.id = id).rec
    ELSE NoSession

\* The cleanup at the end of a successful run left out.
SessionsDelete_Skipped(store, id) == store

\* The cleanup done by position: the index of an absent key is -1, and
\* splice(-1, 1) takes the last entry.
SessionsDelete_ByIndex(store, id) ==
    IF id \in Keys(store)
    THEN SelectSeq(store, LAMBDA e : e.id # id)
    ELSE SubSeq(store, 1, Len(store) - 1)

\* Map.prototype.delete: no effect for an absent key.
SessionsDelete(store, id) ==
    SelectSeq(store, LAMBDA e : e.id # id)

\* The cleanup test taken at the expiry instant too.
IsExpired_AtExpiry(t, rec) == t >= rec.expiresAt

\* The test of the cleanup loop for one entry, read at clock reading t.
IsExpired(t, rec) == t > rec.expiresAt

\* The cleanup loop: entry i is tested at clock reading reads[i].
RECURSIVE SweepFrom(_, _, _)
SweepFrom(store, reads, i) ==
    IF i > Len(store) THEN <<>>
    ELSE IF IsExpired(reads[i], store[i].rec)
         THEN SweepFrom(store, reads, i + 1)
         ELSE <<store[i]>> \o SweepFrom(store, reads, i + 1)

Sweep(store, reads) == SweepFrom(store, reads, 1)

\* ------------------------------------------------------------------ clock
\* The clock is observed within MaxDrift milliseconds after 0 and after one
\* session lifetime.
ClockInBounds(t) ==
    /\ t <= SessionTTL + MaxDrift
    /\ t % SessionTTL <= MaxDrift

\* Time passes between requests: a millisecond, or a whole session lifetime.
Tick ==
    /\ \E d \in {1, SessionTTL} :
          /\ ClockInBounds(now + d)
          /\ now' = now + d
    /\ UNCHANGED <<sessions, created, issued, runs, reply>>

\* Date.now() at reading point k of a handler: ticks[j] is the reading point
\* just before which the clock advanced by its j-th millisecond.
ReadClock(ticks, k) == now + Cardinality({j \in DOMAIN ticks : ticks[j] <= k})

\* ------------------------------------------------------ create-session
\* POST /api/create-session, the synchronous part after the await of
\* getAssociatedTokenAddress: id generation, sessions.set, cleanup loop.
\* Reading points: 1 = the id (line 96), 2 = createdAt, 3 = expiresAt,
\* 3 + i = the cleanup test of entry i, last = the response; never = a
\* millisecond that does not pass during the call.
CreateSession ==
    /\ created < MaxCreates
    /\ \E suffix \in RandSuffixes :
       LET never == Len(sessions) + 6
       IN  \E ticks \in [1..(MaxDrift - (now % SessionTTL)) -> 1..never] :
              LET id     == SessionId(ReadClock(ticks, 1), suffix)
                  rec    == SessionRecord(created + 1,
                                          ReadClock(ticks, 2), ReadClock(ticks, 3))
                  stored == SessionsSet(sessions, id, rec)
                  last   == Len(stored) + 4
                  reads  == [i \in 1..Len(stored) |-> ReadClock(ticks, 3 + i)]
              IN  /\ \A j \in DOMAIN ticks :
                        /\ ticks[j] <= last \/ ticks[j] = never
                        /\ j > 1 => ticks[j - 1] <= ticks[j]
                  /\ ClockInBounds(ReadClock(ticks, last))
                  /\ sessions' = Sweep(stored, reads)
                  /\ now' = ReadClock(ticks, last)
                  /\ issued' = issued \cup {id}
                  /\ created' = created + 1
    /\ UNCHANGED <<runs, reply>>

\* ------------------------------------------- execute-privacy-transaction
\* What the collaborators may answer.
StatusOutcomes ==
    [kind : {"status"}, level : {NoValue, "processed", "confirmed", "finalized"},
     err : BOOLEAN]
    \cup [kind : {"throw"}, level : {"rpc error", "rpc error: simulation failed on-chain"},
          err : {FALSE}]

Balances == {500000, 1000000, 1500000}
BalanceOutcomes == [kind : {"amount"}, amount : Balances]
                   \cup {[kind |-> "throw", amount |-> 0]}

DeviceOutcomes == {"neterr", "notok", "ok_notoken", "ok_token", "ok_token_noid"}

\* No response sent yet.
NoResponse ==
    [status |-> 0, success |-> FALSE, error |-> NoValue, have |-> NoAmount,
     need |-> NoAmount, device_id |-> NoToken, device_token |-> NoToken,
     deep_link |-> NoToken, withdrawal_tx |-> NoValue]

\* 1_000_000: the minor units of one USDC.
MinorPerUsdc == 1000000

\* process.env.PAYMENT_WALLET || '3Nwx...'
PAYMENT_WALLET == "PAYMENT_WALLET"

\* minor / 1_000_000: the amount in USDC handed to the pool client, kept as
\* the exact quotient.
ToUsdc(minor) == [minor |-> minor, per |-> MinorPerUsdc]

\* No pool call pending.
NoCall ==
    [fn |-> "none", owner |-> 0, amount |-> ToUsdc(0), mint |-> NoValue,
     recipient |-> NoValue]

\* A request not yet received.
IdleRun ==
    [pc |-> "idle", sessionId |-> MissingId, session |-> NoSession, attempt |-> 0,
     usdcBalance |-> 0, lastBalance |-> NoAmount, call |-> NoCall,
     withdrawal |-> NoValue, fetched |-> NoValue, response |-> NoResponse, sent |-> 0]

\* res.status(code).json({ success: false, error })
ErrorResponse(code, msg, have) ==
    [status |-> code, success |-> FALSE, error |-> msg, have |-> have,
     need |-> IF have = NoAmount THEN NoAmount ELSE PAYMENT_AMOUNT,
     device_id |-> NoToken, device_token |-> NoToken, deep_link |-> NoToken,
     withdrawal_tx |-> NoValue]

\* `${DESKTOP_SCHEME}://activate?token=${deviceToken}`
DeepLink(token) == <<"exidvpn://activate?token=", token>>

\* res.json({ success: true, device_id, device_token, deep_link, withdrawal_tx })
SuccessResponse(deviceId, deviceToken, withdrawalTx) ==
    [status |-> 200, success |-> TRUE, error |-> NoValue, have |-> NoAmount,
     need |-> NoAmount, device_id |-> deviceId, device_token |-> deviceToken,
     deep_link |-> DeepLink(deviceToken), withdrawal_tx |-> withdrawalTx]

\* The handler has answered: its locals are gone; the request's session id and
\* the session object it resolved are kept to state the claims.
Answered(run, resp) ==
    [IdleRun EXCEPT !.pc = "done", !.sessionId = run.sessionId,
                    !.session = run.session, !.response = resp,
                    !.sent = run.sent + 1]

\* The catch answering without res.status(500).
Caught_StatusLeftOut(run, msg, have) == Answered(run, ErrorResponse(200, msg, have))

\* The outer catch: res.status(500).json({ success: false, error: error.message })
Caught(run, msg, have) == Answered(run, ErrorResponse(500, msg, have))

\* Lines 136-147, up to the first await of the pipeline.  Requests are
\* numbered in their order of arrival.
Start(r) ==
    /\ runs[r].pc = "idle"
    /\ \A q \in RunIds : q < r => runs[q].pc # "idle"
    /\ \E sessionId \in issued \cup {UnknownId, MissingId}, withSignature \in BOOLEAN :
          LET run     == [runs[r] EXCEPT !.sessionId = sessionId]
              session == SessionsGet(sessions, sessionId)
          IN  runs' = [runs EXCEPT ![r] =
                 IF sessionId = MissingId
                 THEN Answered(run, ErrorResponse(400, "sessionId is required", NoAmount))
                 ELSE IF session = NoSession
                 THEN Answered(run, ErrorResponse(400, "Invalid or expired session", NoAmount))
                 ELSE [run EXCEPT !.session = session,
                                  !.pc = IF withSignature THEN "waiting" ELSE "verifying"]]
    /\ UNCHANGED <<now, sessions, created, issued, reply>>

\* status?.value?.confirmationStatus === 'confirmed' || ... === 'finalized'
IsConfirmedLevel(o) == o.kind = "status" /\ o.level \in {"confirmed", "finalized"}

\* The error of the status left unread.
NoChainError_Ignored(o) == TRUE

\* !status.value.err
NoChainError(o) == ~o.err

\* e.message.includes('failed on-chain')
IncludesFailedOnChain(msg) ==
    msg \in {"Funding transaction failed on-chain", "rpc error: simulation failed on-chain"}

\* The confirmation loop without its bound of 30 attempts.
AfterStatus_NoLimit(run, o) ==
    LET thrown == IF o.kind = "throw" THEN o.level
                  ELSE IF IsConfirmedLevel(o) /\ ~NoChainError(o)
                  THEN "Funding transaction failed on-chain"
                  ELSE NoValue
    IN  IF IsConfirmedLevel(o) /\ NoChainError(o)
        THEN [run EXCEPT !.pc = "verifying", !.attempt = 0]
        ELSE IF thrown # NoValue /\ IncludesFailedOnChain(thrown)
        THEN Caught(run, thrown, NoAmount)
        ELSE [run EXCEPT !.attempt = run.attempt + 1]

\* One iteration of the confirmation loop, getSignatureStatus having answered
\* o: the run after it.  A status of confirmed or finalized with an error
\* throws inside the try, and the inner catch rethrows what includes
\* 'failed on-chain'; the last iteration falls out of the loop unconfirmed.
AfterStatus(run, o) ==
    LET thrown == IF o.kind = "throw" THEN o.level
                  ELSE IF IsConfirmedLevel(o) /\ ~NoChainError(o)
                  THEN "Funding transaction failed on-chain"
                  ELSE NoValue
    IN  IF IsConfirmedLevel(o) /\ NoChainError(o)
        THEN [run EXCEPT !.pc = "verifying", !.attempt = 0]
        ELSE IF thrown # NoValue /\ IncludesFailedOnChain(thrown)
        THEN Caught(run, thrown, NoAmount)
        ELSE IF run.attempt + 1 < ConfirmAttempts
        THEN [run EXCEPT !.attempt = run.attempt + 1]
        ELSE Caught(run, "Funding transaction did not confirm within 30 seconds",
                    NoAmount)

PollStatus(r) ==
    /\ runs[r].pc = "waiting"
    /\ \E o \in StatusOutcomes : runs' = [runs EXCEPT ![r] = AfterStatus(runs[r], o)]
    /\ UNCHANGED <<now, sessions, created, issued, reply>>

\* The loop left only on a balance above the amount.
BalanceMet_Strict(balance) == balance > PAYMENT_AMOUNT

\* if (usdcBalance >= PAYMENT_AMOUNT) break;
BalanceMet(balance) == balance >= PAYMENT_AMOUNT

\* if (usdcBalance < PAYMENT_AMOUNT) throw ...
Insufficient(balance) == balance < PAYMENT_AMOUNT

\* The observed balance forgotten when a query throws.
BalanceAfterQuery_Reset(previous, o) ==
    IF o.kind = "amount" THEN o.amount ELSE 0

\* usdcBalance = parseInt(accountInfo.value.amount) inside the try: a query
\* that throws leaves the variable as it was.
BalanceAfterQuery(previous, o) ==
    IF o.kind = "amount" THEN o.amount ELSE previous

\* The credential read again from the store at the time of use.
BurnerKey_LookedUpAgain(run) == SessionsGet(sessions, run.sessionId).burner

\* session.burnerPrivateKeyBase58 of the session object resolved at the start.
BurnerKey(run) == run.session.burner

\* The deposit of whatever the burner holds.
DepositCall_WholeBalance(run) ==
    [fn |-> "depositSPL", owner |-> BurnerKey(run), amount |-> ToUsdc(run.usdcBalance),
     mint |-> "USDC_MINT", recipient |-> NoValue]

\* new PrivacyCash({ owner: session.burnerPrivateKeyBase58 }) and
\* client.depositSPL({ amount: PAYMENT_AMOUNT / 1_000_000, mintAddress: USDC_MINT })
DepositCall(run) ==
    [fn |-> "depositSPL", owner |-> BurnerKey(run), amount |-> ToUsdc(PAYMENT_AMOUNT),
     mint |-> "USDC_MINT", recipient |-> NoValue]

\* client.withdrawSPL({ mintAddress: USDC_MINT, amount: PAYMENT_AMOUNT / 1_000_000,
\*                      recipientAddress: PAYMENT_WALLET })
WithdrawCall(run) ==
    [fn |-> "withdrawSPL", owner |-> run.call.owner, amount |-> ToUsdc(PAYMENT_AMOUNT),
     mint |-> "USDC_MINT", recipient |-> PAYMENT_WALLET]

\* One iteration of the balance loop, getTokenAccountBalance having answered
\* o; on leaving the loop, the final check and the call of depositSPL.
\* lastBalance records the amount the ledger last returned to this request.
AfterBalance(run, o) ==
    LET balance == BalanceAfterQuery(run.usdcBalance, o)
        polled  == [run EXCEPT !.usdcBalance = balance,
                               !.lastBalance = IF o.kind = "amount" THEN o.amount
                                               ELSE run.lastBalance]
        leave   == \/ o.kind = "amount" /\ BalanceMet(balance)
                   \/ run.attempt + 1 >= BalanceAttempts
    IN  IF ~leave
        THEN [polled EXCEPT !.attempt = run.attempt + 1]
        ELSE IF Insufficient(balance)
        THEN [Caught(polled, "Insufficient USDC", balance)
                 EXCEPT !.lastBalance = polled.lastBalance]
        ELSE [polled EXCEPT !.pc = "depositing", !.attempt = 0,
                            !.call = DepositCall(polled)]

PollBalance(r) ==
    /\ runs[r].pc = "verifying"
    /\ \E o \in BalanceOutcomes : runs' = [runs EXCEPT ![r] = AfterBalance(runs[r], o)]
    /\ UNCHANGED <<now, sessions, created, issued, reply>>

\* The rejection of depositSPL swallowed.
AfterDeposit_RejectionSwallowed(run, ok) ==
    [run EXCEPT !.pc = "withdrawing", !.call = WithdrawCall(run)]

\* The run after depositSPL resolved (ok) or rejected: on success the 3 s
\* wait and the call of withdrawSPL on the same client.
AfterDeposit(run, ok) ==
    IF ok THEN [run EXCEPT !.pc = "withdrawing", !.call = WithdrawCall(run)]
    ELSE Caught(run, "deposit failed", NoAmount)

\* client.depositSPL resolves or rejects.
Deposit(r) ==
    /\ runs[r].pc = "depositing"
    /\ \E ok \in BOOLEAN : runs' = [runs EXCEPT ![r] = AfterDeposit(runs[r], ok)]
    /\ UNCHANGED <<now, sessions, created, issued, reply>>

\* The run after withdrawSPL resolved (ok) or rejected: on success the call
\* of fetch.
AfterWithdraw(run, ok) ==
    IF ok THEN [run EXCEPT !.pc = "creating", !.withdrawal = "withdrawSignature",
                           !.call = NoCall]
    ELSE Caught(run, "withdraw failed", NoAmount)

\* client.withdrawSPL resolves or rejects.
Withdraw(r) ==
    /\ runs[r].pc = "withdrawing"
    /\ \E ok \in BOOLEAN : runs' = [runs EXCEPT ![r] = AfterWithdraw(runs[r], ok)]
    /\ UNCHANGED <<now, sessions, created, issued, reply>>

\* The run after fetch resolved with a response or rejected.
AfterFetch(run, out) ==
    IF out = "neterr" THEN Caught(run, "fetch failed", NoAmount)
    ELSE [run EXCEPT !.pc = "reading", !.fetched = out]

\* fetch(`${DVPN_API_URL}/device`) resolves with a response or rejects.
DeviceFetch(r) ==
    /\ runs[r].pc = "creating"
    /\ \E out \in DeviceOutcomes : runs' = [runs EXCEPT ![r] = AfterFetch(runs[r], out)]
    /\ UNCHANGED <<now, sessions, created, issued, reply>>

\* deviceData.data?.token and deviceData.data?.id of the fetched body; the
\* token the provisioning service mints is named after the request.
DeviceToken(r, out) == IF out \in {"ok_token", "ok_token_noid"} THEN <<"token", r>> ELSE NoToken
DeviceIdOf(r, out) == IF out = "ok_token" THEN <<"device", r>> ELSE NoToken

\* The token of the body left unchecked.
TokenMissing_Unchecked(token) == FALSE

\* if (!deviceToken)
TokenMissing(token) == token = NoToken

\* After the body is read (deviceResponse.text() or .json()): the checks,
\* sessions.delete and the response.
DeviceRead(r) ==
    /\ runs[r].pc = "reading"
    /\ LET run   == runs[r]
           token == DeviceToken(r, run.fetched)
       IN  IF run.fetched = "notok"
           THEN /\ runs' = [runs EXCEPT ![r] = Caught(run, "Failed to create device", NoAmount)]
                /\ UNCHANGED sessions
           ELSE IF TokenMissing(token)
           THEN /\ runs' = [runs EXCEPT ![r] = Caught(run, "No device token received", NoAmount)]
                /\ UNCHANGED sessions
           ELSE /\ sessions' = SessionsDelete(sessions, run.sessionId)
                /\ runs' = [runs EXCEPT ![r] =
                      Answered(run, SuccessResponse(DeviceIdOf(r, run.fetched), token,
                                                    run.withdrawal))]
    /\ UNCHANGED <<now, created, issued, reply>>

Execute(r) ==
    \/ Start(r)
    \/ PollStatus(r)
    \/ PollBalance(r)
    \/ Deposit(r)
    \/ Withdraw(r)
    \/ DeviceFetch(r)
    \/ DeviceRead(r)

\* ------------------------------------------- the stateless entry points
\* The answer last sent by an entry point that keeps no state; endpoint,
\* input and threw record the request and what the collaborator did.
NoReply ==
    [endpoint |-> "none", input |-> NoValue, threw |-> FALSE, status |-> 0,
     success |-> FALSE, error |-> NoValue, data |-> NoValue]

\* req.body.signedTransaction: absent, the empty string, a base64 string, an
\* array of bytes, or an object keyed by index.
TransactionInputs == {NoValue, "", "base64", "array", "object"}

\* if (!signedTransaction)
TransactionMissing(input) == input \in {NoValue, ""}

\* POST /api/send-transaction: the validation, then sendRawTransaction
\* resolves with a signature or rejects.
SendTransaction ==
    /\ \E input \in TransactionInputs, ok \in BOOLEAN :
          reply' =
             IF TransactionMissing(input)
             THEN [endpoint |-> "send-transaction", input |-> input, threw |-> FALSE,
                   status |-> 400, success |-> FALSE,
                   error |-> "signedTransaction required", data |-> NoValue]
             ELSE IF ok
             THEN [endpoint |-> "send-transaction", input |-> input, threw |-> FALSE,
                   status |-> 200, success |-> TRUE, error |-> NoValue,
                   data |-> "signature"]
             ELSE [endpoint |-> "send-transaction", input |-> input, threw |-> TRUE,
                   status |-> 500, success |-> FALSE, error |-> "rpc error",
                   data |-> NoValue]
    /\ UNCHANGED <<now, sessions, created, issued, runs>>

\* GET /api/blockhash: getLatestBlockhash resolves or rejects.
Blockhash ==
    /\ \E ok \in BOOLEAN :
          reply' =
             IF ok
             THEN [endpoint |-> "blockhash", input |-> NoValue, threw |-> FALSE,
                   status |-> 200, success |-> TRUE, error |-> NoValue,
                   data |-> "blockhash"]
             ELSE [endpoint |-> "blockhash", input |-> NoValue, threw |-> TRUE,
                   status |-> 500, success |-> FALSE, error |-> "rpc error",
                   data |-> NoValue]
    /\ UNCHANGED <<now, sessions, created, issued, runs>>

\* POST /api/create-session when getAssociatedTokenAddress rejects: the catch
\* answers before anything is stored.
CreateSessionFails ==
    /\ reply' = [endpoint |-> "create-session", input |-> NoValue, threw |-> TRUE,
                 status |-> 500, success |-> FALSE, error |-> "address error",
                 data |-> NoValue]
    /\ UNCHANGED <<now, sessions, created, issued, runs>>

Init ==
    /\ now = 0
    /\ sessions = <<>>
    /\ created = 0
    /\ issued = {}
    /\ runs = [r \in RunIds |-> IdleRun]
    /\ reply = NoReply

Next ==
    \/ Tick
    \/ CreateSession
    \/ \E r \in RunIds : Execute(r)

\* Concurrent requests: every interleaving of the handlers' steps.
Spec == Init /\ [][Next]_vars

\* A single execute request beside create-session and the clock.
NextSolo ==
    \/ Tick
    \/ CreateSession
    \/ Execute(1)

SpecSolo == Init /\ [][NextSolo]_vars

\* The handler of request r resumes after an await: the collaborator call it
\* was waiting for has resolved or rejected.
Resume(r) ==
    \/ PollStatus(r)
    \/ PollBalance(r)
    \/ Deposit(r)
    \/ Withdraw(r)
    \/ DeviceFetch(r)
    \/ DeviceRead(r)

\* One execute request whose collaborator calls all return or throw.
SpecLive == Init /\ [][NextSolo]_vars /\ WF_vars(Resume(1))

\* Every entry point that can fail, with a single execute request.
NextHttp ==
    \/ NextSolo
    \/ SendTransaction
    \/ Blockhash
    \/ CreateSessionFails

SpecHttp == Init /\ [][NextHttp]_vars

\* ------------------------------------------------------------ properties
Entries(store) == {store[i] : i \in 1..Len(store)}

\* The request was answered 500: it resolved its session and a stage failed.
FailedRun(r) == runs[r].pc = "done" /\ runs[r].response.status = 500

\* The request was answered with success.
SucceededRun(r) == runs[r].pc = "done" /\ runs[r].response.success

\* After a call failed at a stage, an entry under its session id is present
\* until the session's expiresAt unless a successful call on that id removed it.
FailedCallLeavesSession ==
    \A r \in RunIds :
        (FailedRun(r) /\ now < runs[r].session.expiresAt
                      /\ runs[r].sessionId \notin Keys(sessions))
            => \E q \in RunIds : q # r /\ SucceededRun(q)
                                 /\ runs[q].sessionId = runs[r].sessionId

\* C1 (as amended): a step of an execute call removes the entry under its
\* session id exactly when it is the step that completes the last stage with a
\* device token, and every other step of a call leaves the store as it was;
\* after a call failed at a stage, an entry under its session id is present
\* until the session's expiresAt unless a successful call on that id removed it.
C1_DeleteIffAllStagesSucceeded ==
    [][ /\ \A r \in RunIds :
             runs'[r] # runs[r] =>
                /\ (runs'[r].pc = "done" /\ runs'[r].response.success)
                      <=> (runs[r].pc = "reading"
                           /\ runs[r].fetched \in {"ok_token", "ok_token_noid"})
                /\ IF runs'[r].pc = "done" /\ runs'[r].response.success
                   THEN /\ runs[r].sessionId \notin Keys(sessions')
                        /\ Entries(sessions') =
                              {e \in Entries(sessions) : e.id # runs[r].sessionId}
                   ELSE sessions' = sessions
        /\ FailedCallLeavesSession' ]_vars

\* C1 witness: a call failed, a later or concurrent call on the same id
\* succeeded and removed the session before its expiresAt.
C1_Witness ==
    \E r, q \in RunIds :
        /\ FailedRun(r) /\ SucceededRun(q)
        /\ runs[q].sessionId = runs[r].sessionId
        /\ now < runs[r].session.expiresAt
        /\ runs[r].sessionId \notin Keys(sessions)

\* C1 (as stated): after a call that fails at any stage, the session is still
\* retrievable under the same id until its expiresAt.
C1_Original ==
    \A r \in RunIds :
        (FailedRun(r) /\ now < runs[r].session.expiresAt)
            => runs[r].sessionId \in Keys(sessions)

\* C2 (as stated): a call passes Start only with a session whose expiresAt is
\* still ahead; a session looked up at or after its expiresAt is not found.
C2_ExpiredSessionRejected ==
    [][ \A r \in RunIds :
           (runs[r].pc = "idle" /\ runs'[r].pc \in {"waiting", "verifying"})
               => now < runs'[r].session.expiresAt ]_vars

\* The provisioning service created a device with a token for this request.
DeviceCreated(r) ==
    \/ runs[r].pc = "reading" /\ runs[r].fetched \in {"ok_token", "ok_token_noid"}
    \/ SucceededRun(r)

\* C3 (as stated): device creation is never successfully performed more than
\* once for one session, whatever the retries and concurrent duplicate calls.
C3_ExactlyOnceIssuance ==
    \A r, q \in RunIds :
        (r # q /\ DeviceCreated(r) /\ DeviceCreated(q))
            => runs[r].session # runs[q].session

\* C4: every call sends exactly one response, and it is either a complete
\* success (status 200, device token, the deep link built from it, the
\* withdrawal signature) or a failure with an error message and no device id,
\* device token or deep link.
CompleteSuccess(resp) ==
    /\ resp.success /\ resp.status = 200 /\ resp.error = NoValue
    /\ resp.device_token # NoToken
    /\ resp.deep_link = <<"exidvpn://activate?token=", resp.device_token>>
    /\ resp.withdrawal_tx = "withdrawSignature"

PlainFailure(resp) ==
    /\ ~resp.success /\ resp.status \in {400, 500} /\ resp.error # NoValue
    /\ resp.device_id = NoToken /\ resp.device_token = NoToken
    /\ resp.deep_link = NoToken /\ resp.withdrawal_tx = NoValue

C4_AllOrNothingResponse ==
    \A r \in RunIds :
        /\ runs[r].sent <= 1
        /\ runs[r].pc = "done" <=> runs[r].sent = 1
        /\ runs[r].pc # "done" => runs[r].response = NoResponse
        /\ runs[r].pc = "done" =>
              CompleteSuccess(runs[r].response) \/ PlainFailure(runs[r].response)

\* C4 witness: the pool withdrawal went through, the provisioning service
\* answered without a token, and the call was answered with a plain failure.
C4_Witness ==
    \E r \in RunIds :
        /\ runs[r].pc = "done"
        /\ runs[r].response.error = "No device token received"
        /\ PlainFailure(runs[r].response)

\* C5: in every state of the confirmation loop, the only poll results that
\* take the run past WaitingForFunding are confirmed or finalized with no
\* error attached; no result carrying an error does, whatever its level.
C5_NoConfirmWithError ==
    \A r \in RunIds :
        runs[r].pc = "waiting" =>
            \A o \in StatusOutcomes :
                AfterStatus(runs[r], o).pc = "verifying"
                    => /\ o.kind = "status"
                       /\ o.level \in {"confirmed", "finalized"}
                       /\ ~o.err

\* C5 witness: a run still waiting after polls that did not confirm, about to
\* receive any status, those carrying an error included.
C5_Witness ==
    \E r \in RunIds :
        /\ runs[r].pc = "waiting" /\ runs[r].attempt >= 1
        /\ \E o \in StatusOutcomes : o.err /\ AfterStatus(runs[r], o).pc = "done"
        /\ \E o \in StatusOutcomes : o.err /\ AfterStatus(runs[r], o).pc = "waiting"

\* C6: a run at or past the pool deposit holds an observed balance of at
\* least the payment amount, the amount the ledger last returned; a run that
\* is still to query the balance has not been returned such an amount.
C6_BalanceVerified ==
    \A r \in RunIds :
        /\ runs[r].pc \in {"depositing", "withdrawing", "creating", "reading"}
              => /\ runs[r].usdcBalance >= 1000000
                 /\ runs[r].lastBalance = runs[r].usdcBalance
        /\ runs[r].pc = "verifying"
              => /\ runs[r].lastBalance < 1000000
                 /\ runs[r].attempt < 10

\* C6 witness: a run that reached the deposit on an observed balance of
\* exactly the payment amount.
C6_Witness ==
    \E r \in RunIds : runs[r].pc = "depositing" /\ runs[r].usdcBalance = 1000000

\* C7: the balance stage fails only on its 10th attempt, with the
\* insufficient-funds error carrying the required amount and the amount the
\* ledger last returned (0 if no query succeeded).
C7_InsufficientAfterTenAttempts ==
    [][ \A r \in RunIds :
           (runs[r].pc = "verifying" /\ runs'[r].pc = "done") =>
              /\ runs[r].attempt + 1 = 10
              /\ runs'[r].response.status = 500
              /\ runs'[r].response.error = "Insufficient USDC"
              /\ runs'[r].response.need = 1000000
              /\ runs'[r].response.have =
                    (IF runs'[r].lastBalance = NoAmount THEN 0
                     ELSE runs'[r].lastBalance)
              /\ runs'[r].response.have < 1000000 ]_vars

\* C7 witness: a call answered with observed 500000 against required 1000000.
C7_Witness ==
    \E r \in RunIds :
        /\ runs[r].pc = "done"
        /\ runs[r].response.error = "Insufficient USDC"
        /\ runs[r].response.have = 500000
        /\ runs[r].response.need = 1000000

\* C8 (as stated): every stored record has expiresAt = createdAt + 900000.
C8_FixedTTL ==
    \A e \in Entries(sessions) : e.rec.expiresAt = e.rec.createdAt + 900000

\* C9 (as stated): every create-session call issued an id no earlier call
\* had issued.
C9_UniqueIds == Cardinality(issued) = created

\* The entry the call created is the one holding the newest burner.
Overwritten(e) ==
    \E f \in Entries(sessions') : f.id = e.id /\ f.rec.burner = created'

\* C10 (as amended): when a create-session call finishes, every entry that
\* had expired before the call began has been removed, every entry removed
\* has its expiresAt behind the current time, and the session just created
\* is in the store.
C10_SweepRemovesExpired ==
    [][ created' # created =>
          /\ \A e \in Entries(sessions) :
                \/ Overwritten(e)
                \/ /\ e.rec.expiresAt < now => e \notin Entries(sessions')
                   /\ e \notin Entries(sessions') => e.rec.expiresAt < now'
          /\ \E f \in Entries(sessions') :
                f.rec.burner = created' /\ now' <= f.rec.expiresAt ]_vars

\* C10 witness: a second create-session call removed the expired first
\* session and kept its own.
C10_Witness ==
    /\ created = 2 /\ Cardinality(issued) = 2
    /\ Len(sessions) = 1 /\ sessions[1].rec.burner = 2
    /\ \A r \in RunIds : runs[r].pc = "idle"

\* C10 (as stated): when a create-session call finishes, the entries removed
\* are exactly those whose expiresAt is less than the current time.
C10_Original ==
    [][ created' # created =>
          \A e \in Entries(sessions) :
             \/ Overwritten(e)
             \/ e.rec.expiresAt < now' <=> e \notin Entries(sessions') ]_vars

\* The cause of a failed execute call: its session id was absent or did not
\* resolve (validation), or it resolved a session and a stage failed.
ValidationFailure(r) == runs[r].session = NoSession

\* C11: every failure of an entry point is answered with success=false and
\* an error message; the status is 400 exactly when the input failed
\* validation (no sessionId, no signedTransaction, a session id that does not
\* resolve) and 500 exactly when a stage or a collaborator failed; no failure
\* is answered with a 2xx status and no success with anything but 200.
C11_FailureStatus ==
    /\ \A r \in RunIds :
          runs[r].pc = "done" =>
             LET resp == runs[r].response
             IN  /\ resp.success <=> resp.status = 200
                 /\ ~resp.success =>
                       /\ resp.error # NoValue
                       /\ resp.status = 400 <=> ValidationFailure(r)
                       /\ resp.status = 500 <=> ~ValidationFailure(r)
    /\ reply.endpoint # "none" =>
          /\ reply.success <=> reply.status = 200
          /\ ~reply.success =>
                /\ reply.error # NoValue
                /\ reply.status = 400 <=>
                      (reply.endpoint = "send-transaction"
                       /\ reply.input \in {NoValue, ""})
                /\ reply.status = 500 <=> reply.threw

\* C11 witness: an execute call answered 500 after its pool deposit failed,
\* beside a send-transaction call answered 400.
C11_Witness ==
    /\ \E r \in RunIds :
          runs[r].pc = "done" /\ runs[r].response.error = "deposit failed"
    /\ reply.endpoint = "send-transaction" /\ reply.status = 400

\* C12: deleting a session is idempotent. Removing an id that is absent
\* (already deleted by another successful call, or swept) leaves the store as
\* it is, a second removal of an id changes nothing more, and a call that
\* received its device token completes with success whether or not its delete
\* found an entry.
C12_DeleteIdempotent ==
    [][\A r \in RunIds :
          LET id == runs[r].sessionId
          IN  (runs[r].pc = "reading" /\ runs'[r] # runs[r]) =>
                 /\ (runs[r].fetched \in {"ok_token", "ok_token_noid"})
                       => (runs'[r].pc = "done" /\ runs'[r].response.success)
                 /\ (runs'[r].response.success /\ id \notin Keys(sessions))
                       => sessions' = sessions
                 /\ SessionsDelete(SessionsDelete(sessions, id), id)
                       = SessionsDelete(sessions, id)]_vars

\* C12 witness: one session was ever created and two calls on it both
\* completed with success, so the later delete found no entry.
C12_Witness ==
    /\ created = 1
    /\ \E r, q \in RunIds :
          /\ r # q
          /\ SucceededRun(r) /\ SucceededRun(q)
          /\ runs[r].sessionId = runs[q].sessionId

\* C13: the amount handed to the pool for the deposit and for the withdrawal
\* is the configured payment amount (PAYMENT_AMOUNT minor units, passed as
\* PAYMENT_AMOUNT / 1_000_000 USDC) and the withdrawal's recipient is the
\* configured payment wallet, whatever the request carried, whatever the
\* session holds and whatever balance the burner was seen to have.
C13_FixedAmountAndRecipient ==
    \A r \in RunIds :
        /\ runs[r].pc = "depositing" =>
              /\ runs[r].call.fn = "depositSPL"
              /\ runs[r].call.amount = [minor |-> 1000000, per |-> 1000000]
        /\ runs[r].pc = "withdrawing" =>
              /\ runs[r].call.fn = "withdrawSPL"
              /\ runs[r].call.amount = [minor |-> 1000000, per |-> 1000000]
              /\ runs[r].call.recipient = "PAYMENT_WALLET"

\* C13 witness: a withdrawal is pending for a burner that was seen to hold
\* more than the payment amount.
C13_Witness ==
    \E r \in RunIds :
        /\ runs[r].pc = "withdrawing"
        /\ runs[r].usdcBalance = 1500000
        /\ runs[r].call.recipient = "PAYMENT_WALLET"

\* The stages a request may be in right after one of its steps, by the stage
\* it was in before the step.
StagesAfter(pc) ==
    CASE pc = "idle"        -> {"waiting", "verifying", "done"}
      [] pc = "waiting"     -> {"waiting", "verifying", "done"}
      [] pc = "verifying"   -> {"verifying", "depositing", "done"}
      [] pc = "depositing"  -> {"withdrawing", "done"}
      [] pc = "withdrawing" -> {"creating", "done"}
      [] pc = "creating"    -> {"reading", "done"}
      [] pc = "reading"     -> {"done"}
      [] OTHER              -> {}

\* C14: the stages run in the order start, confirmation wait, balance
\* verification, deposit, withdrawal, device creation. A balance query follows
\* only a confirmed status or a request without a signature (which makes no
\* status query); the deposit follows only an observed balance of at least
\* the payment amount; the withdrawal follows only a deposit that resolved; the
\* device request follows only a withdrawal that resolved; once a stage has
\* failed the request is answered and makes no further collaborator call.
C14_StageOrder ==
    [][\A r \in RunIds :
          LET run == runs[r]
          IN  runs'[r] # run =>
                 /\ runs'[r].pc \in StagesAfter(run.pc)
                 /\ run.pc = "waiting" =>
                       \A o \in StatusOutcomes :
                          AfterStatus(run, o).pc = "verifying"
                             => (o.kind = "status" /\ o.level \in {"confirmed", "finalized"}
                                 /\ ~o.err)
                 /\ runs'[r].pc = "depositing" =>
                       /\ run.pc = "verifying"
                       /\ runs'[r].lastBalance >= 1000000
                 /\ run.pc = "depositing" =>
                       /\ AfterDeposit(run, FALSE).pc = "done"
                       /\ AfterDeposit(run, FALSE).call.fn = "none"
                 /\ run.pc = "withdrawing" =>
                       /\ AfterWithdraw(run, FALSE).pc = "done"
                       /\ AfterWithdraw(run, FALSE).call.fn = "none"
                 /\ run.pc = "creating" => AfterFetch(run, "neterr").pc = "done"
                 /\ runs'[r].pc = "done" => runs'[r].call.fn = "none"]_vars

\* C14 witness: a request whose deposit resolved and whose withdrawal was
\* rejected has been answered with that failure.
C14_Witness ==
    \E r \in RunIds :
        runs[r].pc = "done" /\ runs[r].response.error = "withdraw failed"

\* C15 (as stated): at the first poll whose status carries an error, whatever
\* the confirmation level that comes with it, the confirmation wait fails the
\* request with the on-chain failure and no further status query is made.
C15_FailsOnAnyErrorStatus ==
    \A r \in RunIds :
        runs[r].pc = "waiting" =>
           \A o \in StatusOutcomes :
              (o.kind = "status" /\ o.err) =>
                 /\ AfterStatus(runs[r], o).pc = "done"
                 /\ AfterStatus(runs[r], o).response.error
                       = "Funding transaction failed on-chain"

\* C16 (as stated): the confirmation wait ends at the first poll that reports
\* confirmed or finalized without an error; a poll that returns no status or
\* whose query raises an error is transient, the wait going on to the next
\* poll; the 30th poll that is still unconfirmed fails the request with the
\* did-not-confirm timeout.
C16_TransientPolls ==
    \A r \in RunIds :
        runs[r].pc = "waiting" =>
           \A o \in StatusOutcomes :
              LET after == AfterStatus(runs[r], o)
              IN  /\ (o.kind = "status" /\ o.level \in {"confirmed", "finalized"} /\ ~o.err)
                        => after.pc = "verifying"
                  /\ (o.kind = "throw" \/ (o.kind = "status" /\ o.level = NoValue /\ ~o.err))
                        => IF runs[r].attempt + 1 < 30
                           THEN after = [runs[r] EXCEPT !.attempt = runs[r].attempt + 1]
                           ELSE /\ after.pc = "done"
                                /\ after.response.error
                                      = "Funding transaction did not confirm within 30 seconds"

\* The request has passed its start and has not been answered.
InFlight(r) == runs[r].pc \notin {"idle", "done"}

\* C17 (as stated): at most one execute request is in flight per session:
\* while one is between its start and its answer no second request for the
\* same session id passes the start, so two requests never both have a pool
\* deposit submitted from the same burner.
C17_OneRunPerSession ==
    \A r, q \in RunIds :
        (r # q /\ InFlight(r) /\ InFlight(q))
           => runs[r].sessionId # runs[q].sessionId

\* C18: a request that has started is answered (complete or failed) as long
\* as every collaborator call returns or throws, and before that it makes at
\* most 30 status queries, at most 10 balance queries, one deposit, one
\* withdrawal and one device request: each query of a loop uses up one of its
\* attempts, and each pool or device call leaves its stage for good.
C18_BoundedTermination ==
    /\ \A r \in RunIds : InFlight(r) ~> (runs[r].pc = "done")
    /\ [](\A r \in RunIds :
             /\ runs[r].pc = "waiting" => runs[r].attempt < 30
             /\ runs[r].pc = "verifying" => runs[r].attempt < 10)
    /\ [][\A r \in RunIds :
             runs'[r] # runs[r] =>
                /\ (runs[r].pc = "waiting" /\ runs'[r].pc = "waiting")
                      => runs'[r].attempt = runs[r].attempt + 1
                /\ (runs[r].pc = "verifying" /\ runs'[r].pc = "verifying")
                      => runs'[r].attempt = runs[r].attempt + 1
                /\ runs[r].pc \in {"depositing", "withdrawing", "creating", "reading"}
                      => runs'[r].pc \in StagesAfter(runs[r].pc) \ {runs[r].pc}]_vars

\* C18 witness: a request answered with the did-not-confirm timeout, that is
\* after 30 status queries.
C18_Witness ==
    \E r \in RunIds :
        /\ runs[r].pc = "done"
        /\ runs[r].response.error = "Funding transaction did not confirm within 30 seconds"

\* The burner of request r has a deposit in the pool that no withdrawal has
\* followed: the withdrawal is pending, or it was rejected.
DepositOutstanding(r) ==
    \/ runs[r].pc = "withdrawing"
    \/ runs[r].pc = "done" /\ runs[r].response.error = "withdraw failed"

\* C19 (as stated): whenever a burner has made a deposit that resolved and no
\* withdrawal has resolved after it, the store still holds an entry under the
\* session id of that burner: neither the sweep of create-session nor another
\* request removes it in that window.
C19_SessionKeptWhileDeposited ==
    \A r \in RunIds :
        DepositOutstanding(r) => runs[r].sessionId \in Keys(sessions)

\* The entries of the store under ids other than id.
OtherEntries(store, id) == {e \in Entries(store) : e.id # id}

\* C20: a request that resolved its session at the start goes on with the
\* session object it captured: every later step keeps that object, the pool
\* client is owned by its burner key whether or not the store still holds the
\* session, the request is never answered 'Invalid or expired session' after
\* the start, what the request makes of the pool's answer to its deposit and
\* to its withdrawal does not depend on the store, and a step of a request on
\* one session id leaves the store's entries under every other id as they are.
C20_CapturedSession ==
    [][\A r \in RunIds :
          LET run == runs[r]
              id  == runs'[r].sessionId
          IN  runs'[r] # run =>
                 /\ OtherEntries(sessions', id) = OtherEntries(sessions, id)
                 /\ run.pc # "idle" =>
                       /\ runs'[r].session = run.session
                       /\ runs'[r].sessionId = run.sessionId
                       /\ runs'[r].response.error # "Invalid or expired session"
                       /\ runs'[r].call.fn # "none"
                             => runs'[r].call.owner = run.session.burner
                 /\ run.pc = "depositing" =>
                       \E ok \in BOOLEAN : runs'[r] = AfterDeposit(run, ok)
                 /\ run.pc = "withdrawing" =>
                       \E ok \in BOOLEAN : runs'[r] = AfterWithdraw(run, ok)]_vars

\* C20 witness: a request has its withdrawal pending, owned by the burner key
\* it captured, after another request on the same session completed and
\* removed the session from the store.
C20_Witness ==
    \E r, q \in RunIds :
        /\ r # q
        /\ runs[r].pc = "withdrawing"
        /\ runs[r].call.owner = runs[r].session.burner
        /\ SucceededRun(q)
        /\ runs[q].sessionId = runs[r].sessionId
        /\ runs[r].sessionId \notin Keys(sessions)
====
